---- MODULE Spec2Model ----
(***************************************************************************)
(* Model of src/load.py: the batch loader that extracts Products and       *)
(* Locations from a transaction batch, resolves foreign keys through a     *)
(* process-wide cache, and writes through session_context_manager.         *)
(*                                                                         *)
(* Python strings are TLA+ strings, joined with \o.  Identifiers (the      *)
(* str(uuid4()) values and the ids of persisted rows) are the positive     *)
(* naturals; None is 0, so that `not result` is `result = None`.           *)
(***************************************************************************)
EXTENDS Naturals, Sequences, FiniteSets, TLC

VARIABLES
    store,      \* committed rows of the database: [product, location]
    cache,      \* src.cache.cache, the process-wide mapping key -> id
    info,       \* conn.info of the pooled DBAPI connection
    pc,         \* "idle" (outside any scope) or "body" (inside the with block)
    tx,         \* rows visible to the open session (store + flushed inserts)
    pending,    \* objects added to the session and not yet flushed
    previous,   \* the local `previous` of session_context_manager
    staged,     \* history: every object added in the current / last scope
    entryStore, \* history: store when the current / last scope was entered
    entryInfo,  \* history: info when the current / last scope was entered
    outcome,    \* history: how the last scope ended
    raised,     \* history: the failure raised inside the last scope
    propagated, \* history: the failure that reached the caller of the scope
    sessionLog, \* history: the Session calls of the current / last scope
    calls,      \* history: the resolver calls of the last body operation
    stmts,      \* history: the statements executed by the last operation
    prior,      \* history: resolutions that succeeded earlier in this scope
    nOps,       \* number of body operations called so far
    batch,      \* loader: the transaction batch being loaded
    phase,      \* loader / extractor: position in the pipeline
    products,   \* loader: result of get_unique_products
    locations,  \* loader: result of get_locations
    basket_items, \* loader: result of get_basket_items
    transactions, \* loader: result of get_transactions
    nextUuid    \* number of uuid4() values drawn so far

vars == <<store, cache, info, pc, tx, pending, previous, staged, entryStore,
          entryInfo, outcome, raised, propagated, sessionLog, calls, stmts,
          prior, nOps, batch, phase, products, locations,
          basket_items, transactions, nextUuid>>

scopeVars == <<store, cache, info, pc, tx, pending, previous, staged,
               entryStore, entryInfo, outcome, raised, propagated, sessionLog,
               calls, stmts, prior, nOps>>

loadVars == <<batch, phase, products, locations, basket_items, transactions,
              nextUuid>>

----------------------------------------------------------------------------
(* Bounds of the model.                                                    *)

MaxOps == 2

----------------------------------------------------------------------------
(* Python values.                                                          *)

None == 0

NoError == "none"

\* str(mapping[key]): the iced flag is a bool, every other value a string.
Str(mapping, key) ==
    IF key = "iced"
    THEN (IF mapping[key] THEN "True" ELSE "False")
    ELSE mapping[key]

RECURSIVE Join(_, _)
\* sep.join(parts)
Join(sep, parts) ==
    IF parts = <<>> THEN ""
    ELSE IF Len(parts) = 1 THEN Head(parts)
    ELSE Head(parts) \o sep \o Join(sep, Tail(parts))

RECURSIVE SeqToSet(_)
SeqToSet(s) == IF s = <<>> THEN {} ELSE {Head(s)} \cup SeqToSet(Tail(s))

----------------------------------------------------------------------------
(* The data the model draws its inputs from.  Two of the product attribute *)
(* tuples and one location name are chosen so that their cache keys        *)
(* coincide, which ", ".join makes possible.                               *)

Ids == {1, 2}

LatteAttrs == [name |-> "a, b", flavour |-> "c", size |-> "M", iced |-> FALSE]
MochaAttrs == [name |-> "a", flavour |-> "b, c", size |-> "M", iced |-> FALSE]
ProductAttrs == {LatteAttrs, MochaAttrs}

LocationNames == {"x", "a, b, c, M, False"}

Tables == {"product", "location"}

ProductRow(id, a) ==
    [id |-> id, name |-> a.name, flavour |-> a.flavour, size |-> a.size,
     iced |-> a.iced]

LocationRow(id, n) == [id |-> id, name |-> n]

AttrsOf(r) ==
    [name |-> r.name, flavour |-> r.flavour, size |-> r.size, iced |-> r.iced]

Objects ==
    {[table |-> "product", row |-> ProductRow(i, a)] : i \in Ids, a \in ProductAttrs}
    \cup {[table |-> "location", row |-> LocationRow(i, n)] : i \in Ids, n \in LocationNames}

EmptyDb == [product |-> {}, location |-> {}]

----------------------------------------------------------------------------
(* src.cache.cache: a process-wide mapping.  The module is not part of the *)
(* sources; it is modelled from the specification ("a single shared        *)
(* mutable mapping": get returns the stored value or None, add stores).    *)

EmptyCache == [k \in {} |-> None]

cache_get(c, key) == IF key \in DOMAIN c THEN c[key] ELSE None

cache_add(c, key, value) ==
    [k \in DOMAIN c \cup {key} |-> IF k = key THEN value ELSE c[k]]

----------------------------------------------------------------------------
(* src.models.PaymentType.from_str, modelled from the specification: a     *)
(* closed enumeration, parsed case-insensitively, failing on an            *)
(* unrecognized string.                                                    *)

PaymentTypes == {"CARD", "CASH"}

PaymentStrings == {"cash", "voucher"}

Upper(str) ==
    CASE str = "cash" -> "CASH"
      [] str = "card" -> "CARD"
      [] str = "voucher" -> "VOUCHER"
      [] OTHER -> str

from_str(str) ==
    IF Upper(str) \in PaymentTypes
    THEN [err |-> NoError, value |-> Upper(str)]
    ELSE [err |-> "PaymentTypeError", value |-> ""]

----------------------------------------------------------------------------
(* The database as the code uses it: statements pass the before_execute    *)
(* listener and are then executed against the rows the session sees.  The  *)
(* primary key of both tables is id.                                       *)

EmptyInfo == [k \in {} |-> {}]

InsertOf(o) == [kind |-> "insert", table |-> o.table, row |-> o.row, prefixes |-> {}]

SelectOf(table) == [kind |-> "select", table |-> table, prefixes |-> {}]

\* The listener without its test of the table name: every insert is marked.
ignore_duplicate_any_table(conn_info, element) ==
    IF /\ element.kind = "insert"
       /\ "ignore_tables" \in DOMAIN conn_info
    THEN [element EXCEPT !.prefixes = @ \cup {"IGNORE"}]
    ELSE element

\* The listener registered on Engine "before_execute".
_ignore_duplicate(conn_info, element) ==
    IF /\ element.kind = "insert"
       /\ "ignore_tables" \in DOMAIN conn_info
       /\ element.table \in conn_info["ignore_tables"]
    THEN [element EXCEPT !.prefixes = @ \cup {"IGNORE"}]
    ELSE element

DuplicateKey(db, table, row) == \E r \in db[table] : r.id = row.id

\* MySQL executing one INSERT [IGNORE] statement.
ExecuteInsert(db, element) ==
    IF DuplicateKey(db, element.table, element.row)
    THEN IF "IGNORE" \in element.prefixes
         THEN [db |-> db, err |-> NoError]
         ELSE [db |-> db, err |-> "IntegrityError"]
    ELSE [db |-> [db EXCEPT ![element.table] = @ \cup {element.row}],
          err |-> NoError]

(* The state a body operation works on:                                    *)
(*   cache, db (the rows the session sees), pending, err (the exception in *)
(*   flight), result, calls and stmts (what was called and executed), out  *)
(*   (the list under construction), uuid (uuid4() values drawn).           *)

RECURSIVE session_flush(_, _)
\* Session.flush(): INSERT the pending objects in the order they were added.
session_flush(s, conn_info) ==
    IF s.pending = <<>> \/ s.err # NoError THEN s
    ELSE LET element == _ignore_duplicate(conn_info, InsertOf(Head(s.pending)))
             r == ExecuteInsert(s.db, element)
         IN session_flush([s EXCEPT !.db = r.db,
                                    !.err = r.err,
                                    !.pending = Tail(@),
                                    !.stmts = Append(@, element)],
                          conn_info)

\* Query.one() over the rows the filter matched.
QueryOne(rows) ==
    IF Cardinality(rows) = 1
    THEN [err |-> NoError, id |-> (CHOOSE r \in rows : TRUE).id]
    ELSE IF rows = {}
         THEN [err |-> "NoResultFound", id |-> None]
         ELSE [err |-> "MultipleResultsFound", id |-> None]

\* filter_by(**kwargs): the rows equal to kwargs on every column it names.
filter_by(rows, kwargs) == {r \in rows : \A k \in DOMAIN kwargs : r[k] = kwargs[k]}

\* session.query(...).filter_by(...).one()[0]: autoflush, then the SELECT.
session_query_one(s, conn_info, table, kwargs) ==
    LET f == session_flush(s, conn_info)
    IN IF f.err # NoError THEN [f EXCEPT !.result = None]
       ELSE LET element == _ignore_duplicate(conn_info, SelectOf(table))
                q == QueryOne(filter_by(f.db[table], kwargs))
            IN [f EXCEPT !.err = q.err,
                         !.result = q.id,
                         !.stmts = Append(@, element)]

\* session.commit() after a successful flush: the session's rows are the store.
session_commit(committed, view) == view

\* A rollback that keeps what the session flushed.
session_rollback_keeps_flushed(committed, view) == view

\* session.rollback(): the store is what was committed before.
session_rollback(committed, view) == committed

----------------------------------------------------------------------------
(* The resolvers.                                                          *)

KeyColumns == <<"name", "flavour", "size", "iced">>

ProductKey(basket_item) ==
    Join(", ", [i \in 1..Len(KeyColumns) |-> Str(basket_item, KeyColumns[i])])

LocationKey(transaction) == Str(transaction, "location")

CallRecord(fn, arg, queried, s) ==
    [fn |-> fn, arg |-> arg, queried |-> queried, err |-> s.err,
     result |-> s.result]

\* The product resolver without line 92: the resolved id is not cached.
get_existing_product_id_uncached(s, conn_info, basket_item) ==
    LET query_cache_key == ProductKey(basket_item)
        result == cache_get(s.cache, query_cache_key)
    IN IF result # None
       THEN LET h == [s EXCEPT !.result = result]
            IN [h EXCEPT !.calls = Append(@, CallRecord("product", AttrsOf(basket_item), FALSE, h))]
       ELSE LET q == session_query_one(s, conn_info, "product",
                                       [name |-> basket_item.name,
                                        flavour |-> basket_item.flavour,
                                        size |-> basket_item.size,
                                        iced |-> basket_item.iced])
            IN [q EXCEPT !.calls = Append(@, CallRecord("product", AttrsOf(basket_item), TRUE, q))]

_get_existing_product_id(s, conn_info, basket_item) ==
    LET query_cache_key == ProductKey(basket_item)
        result == cache_get(s.cache, query_cache_key)
    IN IF result # None
       THEN LET h == [s EXCEPT !.result = result]
            IN [h EXCEPT !.calls = Append(@, CallRecord("product", AttrsOf(basket_item), FALSE, h))]
       ELSE LET q == session_query_one(s, conn_info, "product",
                                       [name |-> basket_item.name,
                                        flavour |-> basket_item.flavour,
                                        size |-> basket_item.size,
                                        iced |-> basket_item.iced])
                a == IF q.err = NoError
                     THEN [q EXCEPT !.cache = cache_add(@, query_cache_key, q.result)]
                     ELSE q
            IN [a EXCEPT !.calls = Append(@, CallRecord("product", AttrsOf(basket_item), TRUE, a))]

_get_existing_location_id(s, conn_info, transaction) ==
    LET query_cache_key == LocationKey(transaction)
        result == cache_get(s.cache, query_cache_key)
    IN IF result # None
       THEN LET h == [s EXCEPT !.result = result]
            IN [h EXCEPT !.calls = Append(@, CallRecord("location", [location |-> transaction.location], FALSE, h))]
       ELSE LET q == session_query_one(s, conn_info, "location",
                                       [name |-> transaction.location])
                a == IF q.err = NoError
                     THEN [q EXCEPT !.cache = cache_add(@, query_cache_key, q.result)]
                     ELSE q
            IN [a EXCEPT !.calls = Append(@, CallRecord("location", [location |-> transaction.location], TRUE, a))]

\* str(get_uuid()): a value no earlier call returned.
get_uuid(s) == s.uuid + 1

RECURSIVE BasketLoop(_, _, _, _)
\* The inner comprehension of get_basket_items over one transaction's basket.
BasketLoop(s, conn_info, transaction, basket) ==
    IF basket = <<>> \/ s.err # NoError THEN s
    ELSE LET id == get_uuid(s)
             r == _get_existing_product_id([s EXCEPT !.uuid = id], conn_info,
                                           Head(basket))
         IN IF r.err # NoError THEN r
            ELSE BasketLoop(
                     [r EXCEPT !.out = Append(@, [id |-> id,
                                                  transaction_id |-> transaction.id,
                                                  product_id |-> r.result])],
                     conn_info, transaction, Tail(basket))

RECURSIVE get_basket_items(_, _, _)
get_basket_items(s, conn_info, txns) ==
    IF txns = <<>> \/ s.err # NoError THEN s
    ELSE get_basket_items(BasketLoop(s, conn_info, Head(txns), Head(txns).basket),
                          conn_info, Tail(txns))

RECURSIVE get_transactions(_, _, _)
get_transactions(s, conn_info, txns) ==
    IF txns = <<>> \/ s.err # NoError THEN s
    ELSE LET transaction == Head(txns)
             pt == from_str(transaction.payment_type)
         IN IF pt.err # NoError THEN [s EXCEPT !.err = pt.err]
            ELSE LET r == _get_existing_location_id(s, conn_info, transaction)
                 IN IF r.err # NoError THEN r
                    ELSE get_transactions(
                             [r EXCEPT !.out = Append(@, [id |-> transaction.id,
                                                          payment_type |-> pt.value,
                                                          location_id |-> r.result])],
                             conn_info, Tail(txns))

RECURSIVE insert_many(_, _)
\* session.add_all(data) for each data of argv.
insert_many(s, argv) ==
    IF argv = <<>> THEN s
    ELSE insert_many([s EXCEPT !.pending = @ \o Head(argv)], Tail(argv))

----------------------------------------------------------------------------
(* The extractors.  A Python dict is the sequence of its <<key, value>>    *)
(* pairs in insertion order; json.dumps(..., sort_keys=True) is the        *)
(* sequence sorted by key, so two dicts have one dump exactly when they    *)
(* hold the same pairs.                                                    *)

\* The order of the column names as strings.
KeyRank(k) ==
    CASE k = "flavour" -> 1
      [] k = "iced" -> 2
      [] k = "id" -> 3
      [] k = "name" -> 4
      [] k = "size" -> 5

Keys(d) == {d[i][1] : i \in 1..Len(d)}

\* d[key]
Get(d, key) == d[CHOOSE i \in 1..Len(d) : d[i][1] = key][2]

RECURSIVE InsertSorted(_, _)
InsertSorted(pair, sorted) ==
    IF sorted = <<>> THEN <<pair>>
    ELSE IF KeyRank(pair[1]) <= KeyRank(Head(sorted)[1])
         THEN <<pair>> \o sorted
         ELSE <<Head(sorted)>> \o InsertSorted(pair, Tail(sorted))

\* json.dumps(d) without sort_keys: the pairs in insertion order.
json_dumps_unsorted(d) == d

RECURSIVE json_dumps(_)
\* json.dumps(d, sort_keys=True)
json_dumps(d) ==
    IF d = <<>> THEN <<>> ELSE InsertSorted(Head(d), json_dumps(Tail(d)))

\* json.loads(text): the dict of the pairs, in the order of the text.
json_loads(text) == text

\* The ways of iterating over a set.
Orderings(S) ==
    {f \in [1..Cardinality(S) -> S] : \A i, j \in 1..Cardinality(S) : f[i] = f[j] => i = j}

\* Lines 28-29; order is the order in which the set is iterated.
_deduplicate_products(li, order) ==
    LET dumped_set == SeqToSet([i \in 1..Len(li) |-> json_dumps(li[i])])
    IN IF order \in Orderings(dumped_set)
       THEN [i \in 1..Len(order) |-> json_loads(order[i])]
       ELSE <<>>

\* The orders in which _deduplicate_products may return the products of li.
DedupOrders(li) == Orderings(SeqToSet([i \in 1..Len(li) |-> json_dumps(li[i])]))

\* dict(product, **{"id": id})
WithId(product, id) ==
    IF "id" \in Keys(product)
    THEN [i \in 1..Len(product) |->
              IF product[i][1] = "id" THEN <<"id", id>> ELSE product[i]]
    ELSE Append(product, <<"id", id>>)

\* The Product(**kwargs) row of a dict holding id and the four attributes.
Product(kwargs) ==
    [id |-> Get(kwargs, "id"), name |-> Get(kwargs, "name"),
     flavour |-> Get(kwargs, "flavour"), size |-> Get(kwargs, "size"),
     iced |-> Get(kwargs, "iced")]

\* chain.from_iterable([transaction["basket"] for transaction in txns])
RECURSIVE ChainBaskets(_)
ChainBaskets(txns) ==
    IF txns = <<>> THEN <<>> ELSE Head(txns).basket \o ChainBaskets(Tail(txns))

\* Lines 43-52; uuid is the number of uuid4() values drawn before the call.
get_unique_products(txns, order, uuid) ==
    LET unique == _deduplicate_products(ChainBaskets(txns), order)
    IN [i \in 1..Len(unique) |-> Product(WithId(unique[i], uuid + i))]

\* The set of line 68.
LocationSet(txns) == {txns[i].location : i \in 1..Len(txns)}

\* get_locations over the list of the transactions' locations, not their set.
get_locations_per_transaction(txns, order, uuid) ==
    [i \in 1..Len(txns) |-> LocationRow(uuid + i, txns[i].location)]

\* Lines 66-70; order is the order in which the set is iterated.
get_locations(txns, order, uuid) ==
    IF order \in Orderings(LocationSet(txns))
    THEN [i \in 1..Len(order) |-> LocationRow(uuid + i, order[i])]
    ELSE <<>>

\* The basket item as the resolver reads it: basket_item[key] for the four keys.
Item(d) ==
    [name |-> Get(d, "name"), flavour |-> Get(d, "flavour"),
     size |-> Get(d, "size"), iced |-> Get(d, "iced")]

\* A transaction whose basket items are read by key.
Keyed(transaction) ==
    [transaction EXCEPT !.basket = [i \in 1..Len(@) |-> Item(@[i])]]

----------------------------------------------------------------------------
(* session_context_manager and the operations of its body.                 *)

\* The lists the model passes as ignore_tables, and the inputs of the body.
IgnoreLists == {<<>>, <<"product">>, <<"location">>, <<"product", "location">>}

Groups == {<<o>> : o \in Objects}

Argvs ==
    {<<g>> : g \in Groups}
    \cup {<<g, h>> : g \in {k \in Groups : k[1].table = "product"},
                     h \in {k \in Groups : k[1].table = "location"
                                            /\ k[1].row.name = "x"}}

Baskets ==
    {<<a>> : a \in ProductAttrs} \cup {<<a, b>> : a \in ProductAttrs, b \in ProductAttrs}

BasketInputs ==
    {<<[id |-> "t1", location |-> "x", payment_type |-> "cash", basket |-> b]>> :
        b \in Baskets}

TxnDicts ==
    {[id |-> "t1", location |-> l, payment_type |-> p, basket |-> <<>>] :
        l \in LocationNames, p \in PaymentStrings}

TxnInputs ==
    {<<t>> : t \in TxnDicts}
    \cup {<<t, u>> : t \in {d \in TxnDicts : d.payment_type = "cash"}, u \in TxnDicts}

InitialStores ==
    {EmptyDb,
     [product |-> {ProductRow(1, LatteAttrs)}, location |-> {LocationRow(1, "x")}]}

RECURSIVE Flatten(_)
Flatten(argv) == IF argv = <<>> THEN <<>> ELSE Head(argv) \o Flatten(Tail(argv))

\* The session as the body sees it.
Session ==
    [cache |-> cache, db |-> tx, pending |-> pending, err |-> NoError,
     result |-> None, calls |-> <<>>, stmts |-> <<>>, out |-> <<>>, uuid |-> 0]

\* The product resolutions that succeeded in a call log.
Resolved(log) ==
    {[arg |-> log[i].arg, id |-> log[i].result] :
        i \in {j \in 1..Len(log) : log[j].fn = "product" /\ log[j].err = NoError}}

\* Lines 176-185: open the session and its connection, mark the tables.
Enter(ignore_tables, connects) ==
    /\ pc = "idle"
    /\ nOps' = nOps
    /\ entryStore' = store
    /\ entryInfo' = info
    /\ staged' = <<>>
    /\ calls' = <<>>
    /\ stmts' = <<>>
    /\ prior' = {}
    /\ raised' = NoError
    /\ pending' = <<>>
    /\ tx' = store
    /\ UNCHANGED <<store, cache>>
    /\ IF connects
       THEN /\ previous' = IF "ignore_tables" \in DOMAIN info
                           THEN info["ignore_tables"] ELSE {}
            /\ info' = [k \in DOMAIN info \cup {"ignore_tables"} |->
                            SeqToSet(ignore_tables)]
            /\ sessionLog' = <<"Session", "connection">>
            /\ outcome' = "open"
            /\ propagated' = NoError
            /\ pc' = "body"
       ELSE /\ sessionLog' = <<"Session", "connection failed">>
            /\ outcome' = "not connected"
            /\ propagated' = "OperationalError"
            /\ pc' = "idle"
            /\ UNCHANGED <<previous, info>>

\* Lines 190-196: the failure err reaches the generator: rollback, re-raise, close.
Abort(s, err, log) ==
    /\ store' = session_rollback(store, s.db)
    /\ tx' = store'
    /\ pending' = <<>>
    /\ cache' = s.cache
    /\ calls' = s.calls
    /\ stmts' = s.stmts
    /\ raised' = err
    /\ propagated' = err
    /\ outcome' = "rolled back"
    /\ sessionLog' = log \o <<"rollback", "close">>
    /\ pc' = "idle"
    /\ UNCHANGED <<info, previous, entryStore, entryInfo>>

\* The body goes on after an operation that raised nothing.
Continue(s) ==
    /\ tx' = s.db
    /\ pending' = s.pending
    /\ cache' = s.cache
    /\ calls' = s.calls
    /\ stmts' = s.stmts
    /\ UNCHANGED <<store, info, previous, entryStore, entryInfo,
                   outcome, raised, propagated, sessionLog, pc>>

\* The body calls insert_many(session, *argv).  Objects are added whatever
\* their keys; a key staged twice is decided by the database at the flush.
InsertMany(argv) ==
    /\ pc = "body"
    /\ nOps' = nOps + 1
    /\ staged' = staged \o Flatten(argv)
    /\ prior' = prior \cup Resolved(calls)
    /\ Continue(insert_many(Session, argv))

\* The body calls get_basket_items(session, txns).  The list it returns and
\* the uuid4() values it draws are the caller's; LoadBasketItems keeps them.
GetBasketItems(txns) ==
    /\ pc = "body"
    /\ nOps' = nOps + 1
    /\ prior' = prior \cup Resolved(calls)
    /\ staged' = staged
    /\ LET s == get_basket_items(Session, info, txns)
       IN IF s.err # NoError THEN Abort(s, s.err, sessionLog) ELSE Continue(s)

\* The body calls get_transactions(session, txns).
GetTransactions(txns) ==
    /\ pc = "body"
    /\ nOps' = nOps + 1
    /\ prior' = prior \cup Resolved(calls)
    /\ staged' = staged
    /\ LET s == get_transactions(Session, info, txns)
       IN IF s.err # NoError THEN Abort(s, s.err, sessionLog) ELSE Continue(s)

\* Lines 189-196: the body ends without a failure: commit, close.
Exit ==
    /\ pc = "body"
    /\ nOps' = nOps
    /\ prior' = prior \cup Resolved(calls)
    /\ staged' = staged
    /\ LET s == session_flush(Session, info)
       IN IF s.err # NoError
          THEN Abort(s, s.err, Append(sessionLog, "commit"))
          ELSE /\ store' = session_commit(store, s.db)
               /\ tx' = store'
               /\ pending' = <<>>
               /\ cache' = s.cache
               /\ calls' = s.calls
               /\ stmts' = s.stmts
               /\ outcome' = "committed"
               /\ sessionLog' = sessionLog \o <<"commit", "close">>
               /\ pc' = "idle"
               /\ UNCHANGED <<info, previous, entryStore, entryInfo,
                              raised, propagated>>

Init ==
    /\ store \in InitialStores
    /\ cache = EmptyCache
    /\ info = EmptyInfo
    /\ pc = "idle"
    /\ tx = store
    /\ pending = <<>>
    /\ previous = {}
    /\ staged = <<>>
    /\ entryStore = store
    /\ entryInfo = info
    /\ outcome = "none"
    /\ raised = NoError
    /\ propagated = NoError
    /\ sessionLog = <<>>
    /\ calls = <<>>
    /\ stmts = <<>>
    /\ prior = {}
    /\ nOps = 0
    /\ batch = <<>>
    /\ phase = "scopes"
    /\ products = <<>>
    /\ locations = <<>>
    /\ basket_items = <<>>
    /\ transactions = <<>>
    /\ nextUuid = 0

\* The model lets the caller call at most MaxOps body operations in all.
Budget == nOps < MaxOps

Next ==
    \/ \E l \in IgnoreLists, c \in BOOLEAN : Enter(l, c) /\ UNCHANGED loadVars
    \/ \E argv \in Argvs : Budget /\ InsertMany(argv) /\ UNCHANGED loadVars
    \/ \E txns \in BasketInputs : Budget /\ GetBasketItems(txns) /\ UNCHANGED loadVars
    \/ \E txns \in TxnInputs : Budget /\ GetTransactions(txns) /\ UNCHANGED loadVars
    \/ Exit /\ UNCHANGED loadVars

Spec == Init /\ [][Next]_vars

----------------------------------------------------------------------------
(* The extractors applied to a batch (SpecExtract), and the load of a      *)
(* batch in dependency order (SpecLoad).                                   *)

AsDict(a) ==
    <<<<"name", a.name>>, <<"flavour", a.flavour>>, <<"size", a.size>>,
      <<"iced", a.iced>>>>

Reversed(d) == [i \in 1..Len(d) |-> d[Len(d) + 1 - i]]

TeaAttrs == [name |-> "t", flavour |-> "c", size |-> "M", iced |-> TRUE]

\* Basket mappings with the four attribute keys in two orders, and with a
\* further key.
ExtractMappings ==
    {AsDict(LatteAttrs), Reversed(AsDict(LatteAttrs)),
     Append(AsDict(LatteAttrs), <<"id", "u">>),
     Append(AsDict(LatteAttrs), <<"id", "v">>),
     AsDict(TeaAttrs)}

ListsUpTo2(S) == {<<>>} \cup {<<a>> : a \in S} \cup {<<a, b>> : a \in S, b \in S}

ExtractTxns ==
    {[id |-> "t1", location |-> l, payment_type |-> "cash", basket |-> b] :
        l \in {"x", "y"}, b \in ListsUpTo2(ExtractMappings)}

ExtractBatches == ListsUpTo2(ExtractTxns)

LoadMappings == {AsDict(LatteAttrs), AsDict(MochaAttrs), AsDict(TeaAttrs)}

LoadBatches ==
    {<<[id |-> "t1", location |-> l, payment_type |-> "cash", basket |-> b]>> :
        l \in LocationNames, b \in ListsUpTo2(LoadMappings) \ {<<>>}}
    \cup
    {<<[id |-> "t1", location |-> l, payment_type |-> "cash", basket |-> b],
       [id |-> "t2", location |-> m, payment_type |-> "cash", basket |-> <<c>>]>> :
        l \in LocationNames, m \in LocationNames,
        b \in ListsUpTo2(LoadMappings) \ {<<>>}, c \in LoadMappings}

\* products = get_unique_products(batch)
ExtractProducts ==
    /\ phase = "input"
    /\ \E order \in DedupOrders(ChainBaskets(batch)) :
          products' = get_unique_products(batch, order, nextUuid)
    /\ nextUuid' = nextUuid + Len(products')
    /\ phase' = "products"
    /\ UNCHANGED <<batch, locations, basket_items, transactions>>
    /\ UNCHANGED scopeVars

\* locations = get_locations(batch)
ExtractLocations ==
    /\ phase = "products"
    /\ \E order \in Orderings(LocationSet(batch)) :
          locations' = get_locations(batch, order, nextUuid)
    /\ nextUuid' = nextUuid + Len(locations')
    /\ phase' = "locations"
    /\ UNCHANGED <<batch, products, basket_items, transactions>>
    /\ UNCHANGED scopeVars

InitFrom(batches) ==
    /\ store = EmptyDb
    /\ cache = EmptyCache
    /\ info = EmptyInfo
    /\ pc = "idle"
    /\ tx = store
    /\ pending = <<>>
    /\ previous = {}
    /\ staged = <<>>
    /\ entryStore = store
    /\ entryInfo = info
    /\ outcome = "none"
    /\ raised = NoError
    /\ propagated = NoError
    /\ sessionLog = <<>>
    /\ calls = <<>>
    /\ stmts = <<>>
    /\ prior = {}
    /\ nOps = 0
    /\ batch \in batches
    /\ phase = "input"
    /\ products = <<>>
    /\ locations = <<>>
    /\ basket_items = <<>>
    /\ transactions = <<>>
    /\ nextUuid = 0

InitExtract == InitFrom(ExtractBatches)

NextExtract == ExtractProducts \/ ExtractLocations

SpecExtract == InitExtract /\ [][NextExtract]_vars

\* The session objects of the extracted rows.
ObjectsOf(table, rows) == [i \in 1..Len(rows) |-> [table |-> table, row |-> rows[i]]]

\* with session_context_manager(ignore_tables) as session:
LoadEnter ==
    /\ phase \in {"locations", "written"}
    /\ \E l \in IgnoreLists, c \in BOOLEAN : Enter(l, c)
    /\ UNCHANGED loadVars

\* insert_many(session, products, locations)
LoadWrite ==
    /\ phase = "locations"
    /\ InsertMany(<<ObjectsOf("product", products), ObjectsOf("location", locations)>>)
    /\ phase' = "written"
    /\ UNCHANGED <<batch, products, locations, basket_items, transactions, nextUuid>>

\* The scope that wrote the products and locations ends.
LoadCommit ==
    /\ phase = "written"
    /\ Exit
    /\ UNCHANGED loadVars

\* basket_items = get_basket_items(session, batch)
LoadBasketItems ==
    /\ phase = "written"
    /\ LET keyed == [i \in 1..Len(batch) |-> Keyed(batch[i])]
           s == get_basket_items([Session EXCEPT !.uuid = nextUuid], info, keyed)
       IN /\ GetBasketItems(keyed)
          /\ basket_items' = IF s.err = NoError THEN s.out ELSE <<>>
          /\ phase' = IF s.err = NoError THEN "items" ELSE "failed"
          /\ nextUuid' = s.uuid
    /\ UNCHANGED <<batch, products, locations, transactions>>

\* transactions = get_transactions(session, batch)
LoadTransactions ==
    /\ phase = "items"
    /\ LET keyed == [i \in 1..Len(batch) |-> Keyed(batch[i])]
           s == get_transactions(Session, info, keyed)
       IN /\ GetTransactions(keyed)
          /\ transactions' = IF s.err = NoError THEN s.out ELSE <<>>
          /\ phase' = IF s.err = NoError THEN "transactions" ELSE "failed"
    /\ UNCHANGED <<batch, products, locations, basket_items, nextUuid>>

\* The scope that built the basket items and transactions ends.
LoadExit ==
    /\ phase = "transactions"
    /\ Exit
    /\ phase' = "done"
    /\ UNCHANGED <<batch, products, locations, basket_items, transactions, nextUuid>>

InitLoad == InitFrom(LoadBatches)

NextLoad ==
    \/ ExtractProducts
    \/ ExtractLocations
    \/ LoadEnter
    \/ LoadWrite
    \/ LoadCommit
    \/ LoadBasketItems
    \/ LoadTransactions
    \/ LoadExit

SpecLoad == InitLoad /\ [][NextLoad]_vars

----------------------------------------------------------------------------
(* Properties of the transactional scope and the resolvers (Spec).         *)

\* The table a resolver call reads.
TableOf(call) == call.fn

\* The rows of db[table] a resolver call asks for.
Matching(rows, call) ==
    IF call.fn = "product"
    THEN {r \in rows : AttrsOf(r) = call.arg}
    ELSE {r \in rows : r.name = call.arg.location}

\* The rows of a table staged in the scope.
StagedRows(table) ==
    {staged[i].row : i \in {j \in 1..Len(staged) : staged[j].table = table}}

\* The i-th staged object has the key of a row the store held at entry, or
\* of an object staged before it in the scope.
StagedDuplicate(i) ==
    \/ DuplicateKey(entryStore, staged[i].table, staged[i].row)
    \/ \E j \in 1..(i - 1) :
          staged[j].table = staged[i].table /\ staged[j].row.id = staged[i].row.id

\* The staged rows of a table that are the first to carry their key.
NewRows(table) ==
    {staged[i].row :
        i \in {j \in 1..Len(staged) : staged[j].table = table /\ ~StagedDuplicate(j)}}

\* The tables marked for INSERT IGNORE in the current / last scope.
Marked == IF "ignore_tables" \in DOMAIN info THEN info["ignore_tables"] ELSE {}

\* C1: all-or-nothing scope.  Inside the body nothing is committed; a scope
\* that a failure left has the store it was entered with and hands the same
\* failure to its caller; a scope that no failure left has committed, in one
\* step, every staged row except the duplicates that were ignored.
C1_AllOrNothing ==
    /\ pc = "body" => store = entryStore
    /\ raised # NoError => outcome = "rolled back"
    /\ outcome \in {"rolled back", "not connected"} =>
          store = entryStore /\ propagated # NoError
    /\ outcome = "rolled back" => propagated = raised
    /\ outcome = "committed" =>
          /\ raised = NoError /\ propagated = NoError
          /\ \A t \in Tables : store[t] = entryStore[t] \cup NewRows(t)

\* A scope flushed a new row and was then left by a lookup failure.
C1_Witness ==
    /\ outcome = "rolled back"
    /\ raised = "NoResultFound"
    /\ \E i \in 1..Len(stmts) :
          /\ stmts[i].kind = "insert"
          /\ ~DuplicateKey(entryStore, stmts[i].table, stmts[i].row)

\* C2: a resolver returns the persisted identifier of what it was asked for:
\* whenever a call returns an id, a row with that id and the attributes asked
\* for is in the store (counting the rows staged in the open scope too).
C2_ResolvedIdIsPersisted ==
    \A i \in 1..Len(calls) :
        calls[i].err = NoError =>
            \E r \in Matching(store[TableOf(calls[i])] \cup tx[TableOf(calls[i])]
                              \cup StagedRows(TableOf(calls[i])), calls[i]) :
                r.id = calls[i].result

\* C3: every resolver call whose attributes match no row (committed or
\* staged), or more than one committed row, raises a lookup error, and the
\* failure leaves the scope.
C3_UnresolvableRaises ==
    \A i \in 1..Len(calls) :
        LET t == TableOf(calls[i])
        IN /\ Matching(store[t] \cup tx[t] \cup StagedRows(t), calls[i]) = {}
                => calls[i].err = "NoResultFound"
           /\ Cardinality(Matching(entryStore[t], calls[i])) > 1
                => calls[i].err = "MultipleResultsFound"
           /\ calls[i].err # NoError
                => outcome = "rolled back" /\ propagated = calls[i].err

\* C4: resolver idempotence.  A product resolved earlier in the scope is
\* resolved again to the same id without a query, and a miss that succeeds
\* leaves the id in the cache under the constructed key.
C4_ResolverIdempotent ==
    \A i \in 1..Len(calls) :
        calls[i].fn = "product" =>
            LET earlier ==
                    {r \in prior : r.arg = calls[i].arg}
                    \cup {r \in Resolved(SubSeq(calls, 1, i - 1)) : r.arg = calls[i].arg}
            IN /\ earlier # {} =>
                    /\ calls[i].err = NoError
                    /\ ~calls[i].queried
                    /\ \A r \in earlier : r.id = calls[i].result
               /\ (calls[i].queried /\ calls[i].err = NoError) =>
                    cache_get(cache, ProductKey(calls[i].arg)) = calls[i].result

\* One get_basket_items call resolved the same product twice: first a miss
\* that queried, then a hit.
C4_Witness ==
    \E i, j \in 1..Len(calls) :
        /\ i < j
        /\ calls[i].fn = "product" /\ calls[j].fn = "product"
        /\ calls[i].arg = calls[j].arg
        /\ calls[i].queried /\ calls[i].err = NoError
        /\ ~calls[j].queried

\* C8: every entry into the scope releases the session it opened, and only
\* after the commit or rollback of the scope.
C8_SessionReleased ==
    (pc = "idle" /\ outcome # "none") =>
        /\ Len(sessionLog) >= 2
        /\ sessionLog[Len(sessionLog)] = "close"
        /\ sessionLog[Len(sessionLog) - 1] \in {"commit", "rollback"}

\* C9: inside a scope opened with ignore set S, exactly the inserts into the
\* tables of S are executed as INSERT IGNORE; a duplicate key there (of a row
\* of the store, or of a row inserted earlier in the scope) is skipped (the
\* existing row stays, the scope goes on), and a duplicate key in any other
\* table fails and aborts the scope.
C9_IgnoreDuplicates ==
    /\ \A i \in 1..Len(stmts) :
          /\ "IGNORE" \in stmts[i].prefixes <=>
                (stmts[i].kind = "insert" /\ stmts[i].table \in Marked)
          /\ (/\ stmts[i].kind = "insert"
              /\ stmts[i].table \notin Marked
              /\ \/ DuplicateKey(entryStore, stmts[i].table, stmts[i].row)
                 \/ \E j \in 1..(i - 1) :
                       /\ stmts[j].kind = "insert"
                       /\ stmts[j].table = stmts[i].table
                       /\ stmts[j].row.id = stmts[i].row.id)
                => outcome = "rolled back" /\ raised = "IntegrityError"
    /\ raised = "IntegrityError" =>
          \E i \in 1..Len(staged) :
              staged[i].table \notin Marked /\ StagedDuplicate(i)
    /\ outcome = "committed" =>
          /\ \A i \in 1..Len(staged) :
                StagedDuplicate(i) => staged[i].table \in Marked
          /\ \A t \in Tables :
                /\ entryStore[t] \subseteq store[t]
                /\ \A r, q \in store[t] : r.id = q.id => r = q

\* A scope committed although it staged a row whose key the store held with
\* other attributes: the insert was skipped.
C9_Witness ==
    /\ outcome = "committed"
    /\ \E i \in 1..Len(staged) :
          /\ DuplicateKey(entryStore, staged[i].table, staged[i].row)
          /\ staged[i].row \notin entryStore[staged[i].table]

\* C10: when a scope has exited, by commit or by rollback, the connection's
\* "ignore_tables" marking is what it was before the scope was entered.
C10_MarkingRestored ==
    (pc = "idle" /\ outcome \in {"committed", "rolled back"}) => info = entryInfo

----------------------------------------------------------------------------
(* Properties of the extractors (SpecExtract) and of the load (SpecLoad).  *)

\* The basket mappings of the batch, and a mapping as a function of its keys.
Inputs == ChainBaskets(batch)

AsFunction(d) == [k \in Keys(d) |-> Get(d, k)]

DistinctInputs == {AsFunction(Inputs[i]) : i \in 1..Len(Inputs)}

FourKeys == {"name", "flavour", "size", "iced"}

\* The part of the claim that holds of every input: each distinct mapping
\* (whatever the order of its keys) yields exactly one product, nothing else
\* is returned, and the generated identifiers are pairwise distinct.
DedupCommon ==
    /\ Len(products) = Cardinality(DistinctInputs)
    /\ Len(products) <= Len(Inputs)
    /\ Inputs = <<>> => products = <<>>
    /\ \A m \in DistinctInputs :
          \E i \in 1..Len(products) :
              AttrsOf(products[i]) = [k \in FourKeys |-> m[k]]
    /\ \A i \in 1..Len(products) :
          \E m \in DistinctInputs :
              AttrsOf(products[i]) = [k \in FourKeys |-> m[k]]
    /\ \A i, j \in 1..Len(products) : products[i].id = products[j].id => i = j

NoTwoAlike ==
    \A i, j \in 1..Len(products) :
        AttrsOf(products[i]) = AttrsOf(products[j]) => i = j

\* C6 as stated: for mappings with arbitrary keys, no two products have the
\* same (name, flavour, size, iced), every distinct mapping appears exactly
\* once, the output is no longer than the input, and the ids are distinct.
C6_DedupAsStated == phase # "input" => DedupCommon /\ NoTwoAlike

\* C6 as amended: the same, except that no two products share (name,
\* flavour, size, iced) provided every input mapping has exactly these keys.
C6_Dedup ==
    phase # "input" =>
        /\ DedupCommon
        /\ (\A i \in 1..Len(Inputs) : Keys(Inputs[i]) = FourKeys) => NoTwoAlike

\* The input held one mapping twice, in two key orders, and one product came
\* out of the two.
C6_Witness ==
    /\ phase # "input"
    /\ \E i, j \in 1..Len(Inputs) :
          /\ Inputs[i] # Inputs[j]
          /\ AsFunction(Inputs[i]) = AsFunction(Inputs[j])
    /\ \A i \in 1..Len(Inputs) : Keys(Inputs[i]) = FourKeys
    /\ Len(products) = 1

\* C7: get_locations returns exactly one Location per distinct location of
\* the batch, and the Locations have pairwise distinct identifiers.
C7_Locations ==
    phase = "locations" =>
        /\ {locations[i].name : i \in 1..Len(locations)} = LocationSet(batch)
        /\ \A i, j \in 1..Len(locations) :
              (locations[i].name = locations[j].name \/ locations[i].id = locations[j].id)
                  => i = j
        /\ \A i \in 1..Len(locations), j \in 1..Len(products) :
              locations[i].id # products[j].id

\* Two transactions of one location gave one Location.
C7_Witness ==
    /\ phase = "locations"
    /\ Len(batch) = 2
    /\ batch[1].location = batch[2].location
    /\ Len(locations) = 1

\* The basket items of the batch in the order get_basket_items visits them.
LoadItems == ChainBaskets([i \in 1..Len(batch) |-> Keyed(batch[i])])

\* C5: round trip.  From an empty store and cache, once the products and
\* locations of the batch are written, resolving every basket item and every
\* transaction succeeds, and each BasketItem / Transaction references the id
\* generated for its attributes / location name.
C5_RoundTrip ==
    /\ phase # "failed"
    /\ phase \in {"items", "transactions", "done"} =>
          /\ Len(basket_items) = Len(LoadItems)
          /\ \A k \in 1..Len(basket_items) :
                \E i \in 1..Len(products) :
                    /\ AttrsOf(products[i]) = LoadItems[k]
                    /\ basket_items[k].product_id = products[i].id
    /\ phase \in {"transactions", "done"} =>
          /\ Len(transactions) = Len(batch)
          /\ \A k \in 1..Len(transactions) :
                \E i \in 1..Len(locations) :
                    /\ locations[i].name = batch[k].location
                    /\ transactions[k].location_id = locations[i].id

====
